---- MODULE Spec2Model ----
(***************************************************************************)
(* Voice-presence tracker: session lifecycle, interval splitting by local  *)
(* day, persisted daily totals, the midnight scheduler and the report      *)
(* cooldown (src/src/tracker.py, src/src/db.py, src/src/main.py,           *)
(* src/src/cooldown.py).                                                   *)
(*                                                                         *)
(* Specifications.  Spec: the bot's handlers.  SplitSpec, ReadSpec,        *)
(* CoolSpec: one function applied to inputs from bounded sets.  ApiSpec:   *)
(* the core functions called directly.  IncSpec: two callers of            *)
(* accumulate_interval.  FailSpec: a store call raising, and the retry.    *)
(* SchedSpec: midnight_report_loop with the voice handlers.  ConsSpec:     *)
(* sessions at whole seconds.  RepSpec: interleaved /report-now handlers   *)
(* (src/src/commands.py).  EventSpec: the gateway events, the scheduler    *)
(* and process restarts.                                                   *)
(*                                                                         *)
(* Time.  An instant is an integer number of ticks since the epoch, in     *)
(* UTC.  Python's datetime resolves microseconds and a day has 86400       *)
(* seconds; the model scales both down: TicksPerSecond ticks make one      *)
(* second and DaySeconds seconds make one calendar day.  A local day key   *)
(* (the ISO date string of the code) is the integer number of the day:     *)
(* date.isoformat() is injective and order preserving, and the code only   *)
(* compares keys for equality.                                             *)
(*                                                                         *)
(* Time zones.  A zone is [base, at, off]: UTC offset `base` (seconds)     *)
(* before the UTC second `at`, and `off` from then on (off > base is a     *)
(* spring-forward, off < base a fall-back, off = base no change).          *)
(***************************************************************************)
EXTENDS Integers, Sequences, FiniteSets, TLC

VARIABLES
  now,        \* the clock: utc_now(), in ticks
  tz,         \* the configured time zone (config.timezone)
  open,       \* table open_sessions: user_id -> started_at_utc (ticks)
  daily,      \* table daily_totals: <<day_local, user_id>> -> seconds
  runtime_ready, \* VoiceTrackerBot.runtime_ready of the running process
  expected,   \* history: <<day, user>> -> seconds the closed intervals give the day
  lastEnd,    \* history: user -> the latest end of an interval closed for the user
  stopped,    \* history: the instant and the tables at the last process exit
  hist,       \* history: the last tracker call and its result
  calls,      \* history: the number of handler runs so far
  meta,       \* table meta: key -> value
  sIn,        \* harness: the arguments of the function under test
  sOut        \* harness: [done, ...], the value the function returned

vars == <<now, tz, open, daily, runtime_ready, expected, lastEnd, stopped, hist,
          calls, meta, sIn, sOut>>

\* ---------------------------------------------------------------- bounds

TicksPerSecond == 2
DaySeconds == 3
MaxIds == 2
MaxCalls == 4

DayTicks == DaySeconds * TicksPerSecond
\* The clock runs over one day and one second.
MaxTime == DayTicks + TicksPerSecond
Users == {"u1", "u2"}
Instants == 0..MaxTime
\* Offsets stay below one day, so no wall clock reading passes day MaxDay.
MaxDay == (MaxTime \div DayTicks) + 1
Days == 0..MaxDay

\* ------------------------------------------------------------ time zones

Max2(a, b) == IF a >= b THEN a ELSE b
Min2(a, b) == IF a <= b THEN a ELSE b

\* tz.utcoffset() of a UTC instant, in ticks (datetime.astimezone(tz)).
UtcOffset(z, u) ==
  IF u >= z.at * TicksPerSecond THEN z.off * TicksPerSecond
                                ELSE z.base * TicksPerSecond

\* cursor.astimezone(tz): the wall clock reading of a UTC instant.
ToLocal(z, u) == u + UtcOffset(z, u)

\* local_cursor.date(): the calendar day of a wall clock reading.
DateOf(w) == w \div DayTicks

\* cursor.astimezone(tz).date()
LocalDay(z, u) == DateOf(ToLocal(z, u))

\* datetime.combine(day, time.min, tzinfo=tz).astimezone(timezone.utc):
\* the wall clock reading "midnight of day", read with fold = 0.  A reading
\* before the transition's later wall image uses the old offset (so a
\* skipped reading maps past the transition and a repeated one to its first
\* occurrence), any other the new offset.
MidnightUtc(z, day) ==
  LET w == day * DayTicks
      thr == (z.at + Max2(z.base, z.off)) * TicksPerSecond
  IN  IF w >= thr THEN w - z.off * TicksPerSecond
                  ELSE w - z.base * TicksPerSecond

\* int(timedelta.total_seconds()): truncation toward zero.
WholeSeconds(d) ==
  IF d >= 0 THEN d \div TicksPerSecond ELSE -((-d) \div TicksPerSecond)

\* ------------------------------------------------------------- splitter

\* The loop without its `if chunk_seconds > 0` guard.
RECURSIVE SplitLoopNoGuard(_, _, _)
SplitLoopNoGuard(cursor, end, z) ==
  IF ~(cursor < end) THEN <<>>
  ELSE
    LET local_day == LocalDay(z, cursor)
        next_midnight_utc == MidnightUtc(z, local_day + 1)
        chunk_end == Min2(end, next_midnight_utc)
        chunk_seconds == WholeSeconds(chunk_end - cursor)
    IN  <<[day |-> local_day, seconds |-> chunk_seconds]>>
          \o SplitLoopNoGuard(chunk_end, end, z)

\* The while loop of split_interval_by_local_day, from `cursor` on.
RECURSIVE SplitLoop(_, _, _)
SplitLoop(cursor, end, z) ==
  IF ~(cursor < end) THEN <<>>
  ELSE
    LET local_day == LocalDay(z, cursor)
        next_midnight_utc == MidnightUtc(z, local_day + 1)
        chunk_end == Min2(end, next_midnight_utc)
        chunk_seconds == WholeSeconds(chunk_end - cursor)
        rest == SplitLoop(chunk_end, end, z)
    IN  IF chunk_seconds > 0
          THEN <<[day |-> local_day, seconds |-> chunk_seconds]>> \o rest
          ELSE rest

\* A splitter that takes the bounds of a reversed interval in their order
\* in time.
SplitIntervalEitherOrder(start, end, z) ==
  IF end <= start THEN SplitLoop(end, start, z) ELSE SplitLoop(start, end, z)

\* split_interval_by_local_day(start_utc, end_utc, tz) for aware instants.
SplitIntervalByLocalDay(start, end, z) ==
  IF end <= start THEN <<>> ELSE SplitLoop(start, end, z)

RECURSIVE SumSeconds(_)
SumSeconds(segs) ==
  IF segs = <<>> THEN 0 ELSE Head(segs).seconds + SumSeconds(Tail(segs))

\* The seconds a segment list gives to one day key.
RECURSIVE SecondsOn(_, _)
SecondsOn(segs, day) ==
  IF segs = <<>> THEN 0
  ELSE (IF Head(segs).day = day THEN Head(segs).seconds ELSE 0)
       + SecondsOn(Tail(segs), day)

\* ---------------------------------------------------------------- store

NoRows == [x \in {} |-> 0]

\* Database.set_open_session: upsert, the new started_at replaces the old.
SetOpenSession(op, user_id, started) ==
  IF user_id \in DOMAIN op THEN [op EXCEPT ![user_id] = started]
                           ELSE op @@ (user_id :> started)

\* Database.delete_open_session
DeleteOpenSession(op, user_id) ==
  [x \in (DOMAIN op) \ {user_id} |-> op[x]]

\* A clear_open_sessions that deletes nothing.
ClearNothing(op) == op

\* Database.clear_open_sessions
ClearOpenSessions(op) == NoRows

\* An add_daily_seconds whose upsert replaces the stored seconds.
AddDailySecondsReplace(dl, day_local, user_id, seconds) ==
  IF seconds <= 0 THEN dl
  ELSE [k \in (DOMAIN dl) \cup {<<day_local, user_id>>} |->
          IF k = <<day_local, user_id>> THEN seconds ELSE dl[k]]

\* An add_daily_seconds without the `if seconds <= 0: return`.
AddDailySecondsNoGuard(dl, day_local, user_id, seconds) ==
  IF <<day_local, user_id>> \in DOMAIN dl
    THEN [dl EXCEPT ![<<day_local, user_id>>] = @ + seconds]
    ELSE dl @@ (<<day_local, user_id>> :> seconds)

\* Database.add_daily_seconds: no-op for seconds <= 0, else insert or add.
AddDailySeconds(dl, day_local, user_id, seconds) ==
  IF seconds <= 0 THEN dl
  ELSE IF <<day_local, user_id>> \in DOMAIN dl
         THEN [dl EXCEPT ![<<day_local, user_id>>] = @ + seconds]
         ELSE dl @@ (<<day_local, user_id>> :> seconds)

\* The seconds column of one daily_totals row, 0 when there is no row.
DailySeconds(dl, day_local, user_id) ==
  IF <<day_local, user_id>> \in DOMAIN dl THEN dl[<<day_local, user_id>>] ELSE 0

\* -------------------------------------------------------------- tracker

\* The for loop of accumulate_interval: one add_daily_seconds per segment.
RECURSIVE AddSegments(_, _, _)
AddSegments(dl, user_id, segs) ==
  IF segs = <<>> THEN dl
  ELSE AddSegments(AddDailySeconds(dl, Head(segs).day, user_id, Head(segs).seconds),
                   user_id, Tail(segs))

\* accumulate_interval: the daily_totals table afterwards and the value returned.
AccumulateInterval(dl, user_id, start, end, z) ==
  LET segs == SplitIntervalByLocalDay(start, end, z)
  IN  [daily |-> AddSegments(dl, user_id, segs), total |-> SumSeconds(segs)]

\* A start_session without the check for an open session.
StartSessionAlways(op, user_id, started) ==
  [open |-> SetOpenSession(op, user_id, started), ret |-> TRUE]

\* start_session: the open_sessions table afterwards and the value returned.
StartSession(op, user_id, started) ==
  IF user_id \in DOMAIN op
    THEN [open |-> op, ret |-> FALSE]
    ELSE [open |-> SetOpenSession(op, user_id, started), ret |-> TRUE]

\* An end_session that takes a missing session for one started at the epoch.
EndSessionFromEpoch(op, dl, user_id, ended, z) ==
  LET started == IF user_id \in DOMAIN op THEN op[user_id] ELSE 0
      segs == SplitIntervalByLocalDay(started, ended, z)
  IN  [open |-> [x \in (DOMAIN op) \ {user_id} |-> op[x]],
       daily |-> [k \in (DOMAIN dl) \cup {<<segs[i].day, user_id>> : i \in DOMAIN segs} |->
                    (IF k \in DOMAIN dl THEN dl[k] ELSE 0)
                    + (IF k[2] = user_id THEN SecondsOn(segs, k[1]) ELSE 0)],
       ret |-> SumSeconds(segs)]

\* An end_session that leaves the open_sessions row in place.
EndSessionNoDelete(op, dl, user_id, ended, z) ==
  IF user_id \notin DOMAIN op
    THEN [open |-> op, daily |-> dl, ret |-> 0]
    ELSE LET segs == SplitIntervalByLocalDay(op[user_id], ended, z)
         IN  [open |-> op,
              daily |-> [k \in (DOMAIN dl) \cup {<<segs[i].day, user_id>> : i \in DOMAIN segs} |->
                           (IF k \in DOMAIN dl THEN dl[k] ELSE 0)
                           + (IF k[2] = user_id THEN SecondsOn(segs, k[1]) ELSE 0)],
              ret |-> SumSeconds(segs)]

\* end_session: both tables afterwards and the value returned.
EndSession(op, dl, user_id, ended, z) ==
  IF user_id \notin DOMAIN op
    THEN [open |-> op, daily |-> dl, ret |-> 0]
    ELSE LET acc == AccumulateInterval(dl, user_id, op[user_id], ended, z)
         IN  [open |-> DeleteOpenSession(op, user_id), daily |-> acc.daily,
              ret |-> acc.total]

\* The for loop of rollover_open_sessions over the rows list_open_sessions
\* returned (`snap`), `todo` being the users not visited yet.
RECURSIVE RolloverLoop(_, _, _, _, _, _)
RolloverLoop(todo, snap, op, dl, midnight, z) ==
  IF todo = {} THEN [open |-> op, daily |-> dl]
  ELSE LET u == CHOOSE x \in todo : TRUE
       IN  IF snap[u] >= midnight
             THEN RolloverLoop(todo \ {u}, snap, op, dl, midnight, z)
             ELSE RolloverLoop(todo \ {u}, snap,
                               SetOpenSession(op, u, midnight),
                               AccumulateInterval(dl, u, snap[u], midnight, z).daily,
                               midnight, z)

\* A rollover that credits the sessions and leaves their started_at alone.
RolloverNoReset(op, dl, midnight, z) ==
  [open |-> op,
   daily |-> [k \in (DOMAIN dl) \cup
                     UNION { {<<d, u>> : d \in {d2 \in Days :
                                SecondsOn(SplitIntervalByLocalDay(op[u], midnight, z), d2) > 0}}
                             : u \in {x \in DOMAIN op : op[x] < midnight} } |->
                (IF k \in DOMAIN dl THEN dl[k] ELSE 0)
                + (IF k[2] \in DOMAIN op /\ op[k[2]] < midnight
                     THEN SecondsOn(SplitIntervalByLocalDay(op[k[2]], midnight, z), k[1])
                     ELSE 0)]]

\* A rollover that moves every open session to midnight, also one that
\* started after it.
RolloverEverySession(op, dl, midnight, z) ==
  [open |-> [u \in DOMAIN op |-> midnight],
   daily |-> RolloverNoReset(op, dl, midnight, z).daily]

\* rollover_open_sessions
RolloverOpenSessions(op, dl, midnight, z) ==
  RolloverLoop(DOMAIN op, op, op, dl, midnight, z)

\* The for loop of reseed_sessions.
RECURSIVE ReseedLoop(_, _, _)
ReseedLoop(op, user_ids, started) ==
  IF user_ids = <<>> THEN op
  ELSE ReseedLoop(SetOpenSession(op, Head(user_ids), started), Tail(user_ids), started)

\* reseed_sessions
ReseedSessions(op, user_ids, started) ==
  ReseedLoop(ClearOpenSessions(op), user_ids, started)

\* midnight_report_loop: the UTC instant of midnight of now's local day.
TodayMidnightUtc(z, t) == MidnightUtc(z, LocalDay(z, t))

\* The rows of daily_totals of one day, as user_id -> seconds
\* (db.get_daily_totals read into the dict of get_totals_for_day).
PersistedTotals(dl, day_local) ==
  [u \in {k[2] : k \in {x \in DOMAIN dl : x[1] = day_local}} |-> dl[<<day_local, u>>]]

\* The open sessions with an entry of the split of [started_at, now) on the day.
LiveUsers(op, day_local, z, now_utc) ==
  {u \in DOMAIN op :
     \E i \in DOMAIN SplitIntervalByLocalDay(op[u], now_utc, z) :
       SplitIntervalByLocalDay(op[u], now_utc, z)[i].day = day_local}

\* A get_totals_for_day that credits the live time to daily_totals and
\* restarts the open sessions at now before it reads.
GetTotalsFlushing(dl, op, day_local, z, include_live, now_utc) ==
  LET flush[us \in SUBSET DOMAIN op] ==
        IF us = {} THEN dl
        ELSE LET u == CHOOSE x \in us : TRUE
             IN  AccumulateInterval(flush[us \ {u}], u, op[u], now_utc, z).daily
      dl2 == IF include_live THEN flush[DOMAIN op] ELSE dl
  IN  [open |-> IF include_live THEN [u \in DOMAIN op |-> now_utc] ELSE op,
       daily |-> dl2,
       totals |-> PersistedTotals(dl2, day_local)]

\* get_totals_for_day: the tables afterwards and the mapping returned.
GetTotalsForDay(dl, op, day_local, z, include_live, now_utc) ==
  LET totals == PersistedTotals(dl, day_local)
      live == LiveUsers(op, day_local, z, now_utc)
  IN  [open |-> op,
       daily |-> dl,
       totals |->
         IF ~include_live THEN totals
         ELSE [u \in (DOMAIN totals) \cup live |->
                 (IF u \in DOMAIN totals THEN totals[u] ELSE 0)
                 + (IF u \in live
                      THEN SecondsOn(SplitIntervalByLocalDay(op[u], now_utc, z), day_local)
                      ELSE 0)]]

\* ----------------------------------------------- scheduler's guards

AUTO_REPORT_META_KEY == "last_auto_report_day"

\* The scaled 00:00 minute is one second long, and the loop of
\* @tasks.loop(seconds=30) runs twice a minute.
MinuteTicks == TicksPerSecond
LoopTicks == MinuteTicks \div 2

\* Database.get_meta: <<>> for None, <<value>> for a stored value.
GetMeta(mt, key) == IF key \in DOMAIN mt THEN <<mt[key]>> ELSE <<>>

\* Database.set_meta
SetMeta(mt, key, value) ==
  [k \in (DOMAIN mt) \cup {key} |-> IF k = key THEN value ELSE mt[k]]

\* now_local.hour == 0 and now_local.minute == 0
InMidnightMinute(z, t) == (ToLocal(z, t) % DayTicks) < MinuteTicks

\* Whether a run of midnight_report_loop at instant t gets past its guards.
LoopActs(ready, mt, z, t) ==
  /\ ready
  /\ InMidnightMinute(z, t)
  /\ GetMeta(mt, AUTO_REPORT_META_KEY) # <<LocalDay(z, t) - 1>>

\* A loop that sets the marker whether the post returned or raised.
MarkerAfterAttempt(mt, ok, target_day) ==
  SetMeta(mt, AUTO_REPORT_META_KEY, target_day)

\* The meta table after the try around post_report: set_meta is reached
\* only when post_report returned.
MarkerAfterPost(mt, ok, target_day) ==
  IF ok THEN SetMeta(mt, AUTO_REPORT_META_KEY, target_day) ELSE mt

\* ---------------------------------------------------------- state machine

\* Zones of the tracker runs: no offset change; a spring-forward that skips
\* local midnight; a fall-back whose repeated wall clock readings contain
\* local midnight.
MainZones ==
  { [base |-> 0, at |-> 0, off |-> 0],
    [base |-> 0, at |-> DaySeconds, off |-> 1],
    [base |-> 2, at |-> DaySeconds - 1, off |-> 0] }

\* Zones of the splitter harness.  A utcoffset is shorter than a day.
SplitZones ==
  [base : {0, 2}, at : (DaySeconds - 1)..(DaySeconds + 2), off : 0..(DaySeconds - 1)]

\* The user_ids lists handed to reseed_sessions.
IdLists == UNION { [1..n -> Users] : n \in 0..MaxIds }

\* A voice-state event: the member's id, member.bot, whether member.guild
\* is the configured guild, and before.channel and after.channel.
NoEvent == [user |-> "", bot |-> FALSE, home |-> TRUE, before |-> "none", after |-> "none"]

\* hist: op, the handler; user, ids, at, its arguments; had, whether the user
\* had an open session; started, tracked, the values start_session and
\* end_session returned; rolled, the users a rollover moved; again, whether
\* the call repeats the rollover before it, which moved some session; ev,
\* the voice-state event the gateway delivered.  op is "posted" when the
\* run of the loop that made the rollover has ended, no other handler
\* having run since the rollover.
NoCall ==
  [op |-> "none", user |-> "", ids |-> <<>>, at |-> 0, had |-> FALSE,
   started |-> FALSE, tracked |-> 0, rolled |-> {}, again |-> FALSE,
   ev |-> NoEvent]

Call(name, user, ids, at, started, tracked, rolled) ==
  [op |-> name, user |-> user, ids |-> ids, at |-> at,
   had |-> (user \in DOMAIN open), started |-> started,
   tracked |-> tracked, rolled |-> rolled,
   again |-> (name = "rollover" /\ hist.op \in {"rollover", "posted"}
              /\ hist.at = at /\ hist.rolled # {}),
   ev |-> NoEvent]

\* The history of closed intervals after [start, end) is closed for user.
Closing(ex, user, start, end, z) ==
  [k \in Days \X Users |->
     IF k[2] = user
       THEN ex[k] + SecondsOn(SplitIntervalByLocalDay(start, end, z), k[1])
       ELSE ex[k]]

NeverStopped == [at |-> 0, open |-> NoRows, daily |-> NoRows, seen |-> FALSE]

MainInit ==
  /\ now = 0
  /\ open = NoRows
  /\ daily = NoRows
  /\ runtime_ready = FALSE
  /\ expected = [k \in Days \X Users |-> 0]
  /\ lastEnd = [u \in Users |-> 0]
  /\ stopped = NeverStopped
  /\ hist = NoCall
  /\ calls = 0
  /\ meta = NoRows

\* sOut of the bot's runs: pc, "posting" while midnight_report_loop is
\* suspended at its await of post_report; target, the day of that report.
NoPost == [pc |-> "idle", target |-> 0]

Init ==
  /\ MainInit
  /\ tz \in MainZones
  /\ sIn = <<0, 0>>
  /\ sOut = NoPost

\* The clock advances.
Tick ==
  /\ \E t \in (now + 1)..MaxTime : now' = t
  /\ hist' = NoCall
  /\ stopped' = IF runtime_ready THEN NeverStopped ELSE stopped
  /\ UNCHANGED <<tz, open, daily, runtime_ready, expected, lastEnd, calls, meta, sIn, sOut>>

\* on_ready with the runtime checks passing: reseed from the channel members.
OnReady ==
  /\ ~runtime_ready
  /\ \E ids \in IdLists :
       /\ open' = ReseedSessions(open, ids, now)
       /\ hist' = Call("reseed", "", ids, now, FALSE, 0, {})
  /\ runtime_ready' = TRUE
  /\ UNCHANGED <<now, tz, daily, expected, lastEnd, stopped, meta, sIn, sOut>>
  /\ calls < MaxCalls /\ calls' = calls + 1

\* on_voice_state_update, a member entering the tracked channel.
Join ==
  /\ runtime_ready
  /\ \E u \in Users :
       LET r == StartSession(open, u, now)
       IN  /\ open' = r.open
           /\ hist' = Call("start", u, <<>>, now, r.ret, 0, {})
  /\ stopped' = NeverStopped
  /\ UNCHANGED <<now, tz, daily, runtime_ready, expected, lastEnd, meta, sIn, sOut>>
  /\ calls < MaxCalls /\ calls' = calls + 1

\* on_voice_state_update, a member leaving the tracked channel.
Leave ==
  /\ runtime_ready
  /\ \E u \in Users :
       LET r == EndSession(open, daily, u, now, tz)
       IN  /\ open' = r.open
           /\ daily' = r.daily
           /\ hist' = Call("end", u, <<>>, now, FALSE, r.ret, {})
           /\ IF u \in DOMAIN open
                THEN /\ expected' = Closing(expected, u, open[u], now, tz)
                     /\ lastEnd' = [lastEnd EXCEPT ![u] = Max2(@, now)]
                ELSE UNCHANGED <<expected, lastEnd>>
  /\ stopped' = NeverStopped
  /\ UNCHANGED <<now, tz, runtime_ready, meta, sIn, sOut>>
  /\ calls < MaxCalls /\ calls' = calls + 1

\* The users whose open session starts before midnight.
Rolled(op, midnight) == {u \in DOMAIN op : op[u] < midnight}

RECURSIVE ClosingAll(_, _, _, _, _)
ClosingAll(ex, users, op, midnight, z) ==
  IF users = {} THEN ex
  ELSE LET u == CHOOSE x \in users : TRUE
       IN  ClosingAll(Closing(ex, u, op[u], midnight, z), users \ {u}, op, midnight, z)

\* A run of midnight_report_loop that gets past its guards, up to its
\* await of post_report: the call of rollover_open_sessions.  The loop
\* starts no run while one is suspended.
Rollover ==
  /\ sOut.pc = "idle"
  /\ LoopActs(runtime_ready, meta, tz, now)
  /\ sOut' = [pc |-> "posting", target |-> LocalDay(tz, now) - 1]
  /\ LET m == TodayMidnightUtc(tz, now)
         r == RolloverOpenSessions(open, daily, m, tz)
     IN  /\ open' = r.open
         /\ daily' = r.daily
         /\ hist' = Call("rollover", "", <<>>, m, FALSE, 0, Rolled(open, m))
         /\ expected' = ClosingAll(expected, Rolled(open, m), open, m, tz)
         /\ lastEnd' = [u \in Users |->
                          IF u \in Rolled(open, m) THEN Max2(lastEnd[u], m)
                                                   ELSE lastEnd[u]]
  /\ stopped' = NeverStopped
  /\ UNCHANGED <<now, tz, runtime_ready, meta, sIn>>
  /\ calls < MaxCalls /\ calls' = calls + 1

\* The suspended run of midnight_report_loop goes on: post_report has
\* returned or raised, and the marker is set after a post that returned.
\* Other handlers run and the clock moves between Rollover and this step.
Posted ==
  /\ sOut.pc = "posting"
  /\ \E ok \in BOOLEAN : meta' = MarkerAfterPost(meta, ok, sOut.target)
  /\ sOut' = NoPost
  /\ hist' = IF hist.op = "rollover" THEN [hist EXCEPT !.op = "posted"] ELSE NoCall
  /\ UNCHANGED <<now, tz, open, daily, runtime_ready, expected, lastEnd, stopped,
                 calls, sIn>>

\* The process exits; the database file stays, and the next process starts
\* with runtime_ready = False and no run of the loop suspended.  `stopped`
\* keeps the instant and the open sessions of the exit until the first
\* handler after the restart's reseed.
Stop ==
  /\ runtime_ready
  /\ runtime_ready' = FALSE
  /\ stopped' = [at |-> now, open |-> open, daily |-> daily, seen |-> TRUE]
  /\ hist' = NoCall
  /\ sOut' = NoPost
  /\ UNCHANGED <<now, tz, open, daily, expected, lastEnd, meta, sIn>>
  /\ calls < MaxCalls /\ calls' = calls + 1

Next == Tick \/ OnReady \/ Join \/ Leave \/ Rollover \/ Posted \/ Stop

Spec == Init /\ [][Next]_vars

\* --------------------------------------------------- splitter harness

SplitInit ==
  /\ MainInit
  /\ tz \in SplitZones
  /\ sIn \in Instants \X Instants
  /\ sOut = [done |-> FALSE, segs |-> <<>>]

\* One call of split_interval_by_local_day.
SplitCall ==
  /\ ~sOut.done
  /\ sOut' = [done |-> TRUE, segs |-> SplitIntervalByLocalDay(sIn[1], sIn[2], tz)]
  /\ UNCHANGED <<now, tz, open, daily, runtime_ready, expected, lastEnd, stopped,
                 hist, calls, meta, sIn>>

SplitNext == SplitCall

SplitSpec == SplitInit /\ [][SplitNext]_vars

\* ------------------------------------------------------------ scheduler

\* sOut of the scheduler runs: rolls, for every local date the number of
\* calls of rollover_open_sessions made on it; fails, the number of posts
\* that failed on it; posted, the number of posts that returned on it; pc,
\* whether the loop waits for post_report; target, the day of the report
\* being posted.
SchedInit ==
  /\ MainInit
  /\ tz \in MainZones
  /\ sIn = <<0, 0>>
  /\ sOut = [rolls |-> [d \in Days |-> 0], fails |-> [d \in Days |-> 0],
             posted |-> [d \in Days |-> 0], pc |-> "idle", target |-> 0]

\* Thirty seconds pass and midnight_report_loop runs up to its await of
\* post_report.
LoopTick ==
  /\ sOut.pc = "idle"
  /\ now + LoopTicks <= MaxTime
  /\ now' = now + LoopTicks
  /\ IF LoopActs(runtime_ready, meta, tz, now')
       THEN LET m == TodayMidnightUtc(tz, now')
                d == LocalDay(tz, now')
                r == RolloverOpenSessions(open, daily, m, tz)
            IN  /\ open' = r.open
                /\ daily' = r.daily
                /\ hist' = Call("rollover", "", <<>>, m, FALSE, 0, Rolled(open, m))
                /\ expected' = ClosingAll(expected, Rolled(open, m), open, m, tz)
                /\ lastEnd' = [u \in Users |->
                                 IF u \in Rolled(open, m) THEN Max2(lastEnd[u], m)
                                                          ELSE lastEnd[u]]
                /\ sOut' = [sOut EXCEPT !.rolls[d] = @ + 1, !.pc = "posting",
                                        !.target = d - 1]
       ELSE /\ hist' = NoCall
            /\ UNCHANGED <<open, daily, expected, lastEnd, sOut>>
  /\ UNCHANGED <<tz, runtime_ready, stopped, calls, meta, sIn>>

\* post_report returns or raises; the marker is set after a post that
\* returned.
PostDone ==
  /\ sOut.pc = "posting"
  /\ \E ok \in BOOLEAN :
       IF ok
         THEN /\ meta' = MarkerAfterPost(meta, TRUE, sOut.target)
              /\ sOut' = [sOut EXCEPT !.pc = "idle",
                                      !.posted[sOut.target + 1] = @ + 1]
         ELSE /\ meta' = MarkerAfterPost(meta, FALSE, sOut.target)
              /\ sOut' = [sOut EXCEPT !.pc = "idle",
                                      !.fails[sOut.target + 1] = @ + 1]
  /\ UNCHANGED <<now, tz, open, daily, runtime_ready, expected, lastEnd, stopped,
                 hist, calls, sIn>>

SchedNext == LoopTick \/ PostDone \/ OnReady \/ Join \/ Leave

SchedSpec == SchedInit /\ [][SchedNext]_vars

\* ------------------------------------------------------- core interface

MaxApiCalls == 3

\* Instants handed to the core functions: the epoch, a tick before the
\* first midnight of the UTC day and a second after it.
ApiInstants == {0, DayTicks - 1, DayTicks + TicksPerSecond}

\* The user_ids lists handed to reseed_sessions: nobody or one member.
ApiIdLists == {<<>>} \cup {<<u>> : u \in Users}

\* Increments handed to add_daily_seconds.
ApiDeltas == -1..1

\* A datetime argument: its instant, and whether it has a tzinfo.
Aware(t) == [t |-> t, aware |-> TRUE]
Naive(t) == [t |-> t, aware |-> FALSE]

\* A splitter without the tzinfo check, reading a naive bound as UTC.
SplitUnchecked(start, end, z) ==
  [raised |-> FALSE, segs |-> SplitIntervalByLocalDay(start.t, end.t, z)]

\* split_interval_by_local_day for datetime arguments: raised, whether it
\* raises ValueError; segs, the entries it returns otherwise.
SplitChecked(start, end, z) ==
  IF ~start.aware \/ ~end.aware
    THEN [raised |-> TRUE, segs |-> <<>>]
    ELSE [raised |-> FALSE, segs |-> SplitIntervalByLocalDay(start.t, end.t, z)]

\* accumulate_interval for datetime arguments: the splitter runs before
\* the for loop makes its first add_daily_seconds.
AccumulateChecked(dl, user_id, start, end, z) ==
  LET sp == SplitChecked(start, end, z)
  IN  IF sp.raised
        THEN [raised |-> TRUE, daily |-> dl, total |-> 0]
        ELSE [raised |-> FALSE, daily |-> AddSegments(dl, user_id, sp.segs),
              total |-> SumSeconds(sp.segs)]

\* end_session for a datetime argument; started_at_utc comes from the
\* store, which holds aware instants only (Database._to_utc).
EndSessionChecked(op, dl, user_id, ended, z) ==
  IF user_id \notin DOMAIN op
    THEN [raised |-> FALSE, open |-> op, daily |-> dl, ret |-> 0]
    ELSE LET acc == AccumulateChecked(dl, user_id, Aware(op[user_id]), ended, z)
         IN  IF acc.raised
               THEN [raised |-> TRUE, open |-> op, daily |-> dl, ret |-> 0]
               ELSE [raised |-> FALSE, open |-> DeleteOpenSession(op, user_id),
                     daily |-> acc.daily, ret |-> acc.total]

\* hist of the direct calls: op, the function; user, day, start, at, delta,
\* its arguments (start of an end_session is the started_at found); segs,
\* the entries the splitter returned inside the call; ret, the value
\* returned; naive, whether an argument had no tzinfo (op is then
\* "end_naive" or "accumulate_naive"); raised, whether the call raised.
ApiNoCall ==
  [op |-> "none", user |-> "", day |-> 0, start |-> 0, at |-> 0, delta |-> 0,
   found |-> FALSE, segs |-> <<>>, ret |-> 0, naive |-> FALSE, raised |-> FALSE]

ApiInit ==
  /\ now = 0
  /\ tz \in MainZones
  /\ open = NoRows
  /\ daily = NoRows
  /\ runtime_ready = FALSE
  /\ expected = [k \in Days \X Users |-> 0]
  /\ lastEnd = [u \in Users |-> 0]
  /\ stopped = NeverStopped
  /\ hist = ApiNoCall
  /\ calls = 0
  /\ meta = NoRows
  /\ sIn = <<0, 0>>
  /\ sOut = [done |-> FALSE, segs |-> <<>>]

\* What every direct call leaves alone; MaxApiCalls calls are made.
ApiFrame ==
  /\ calls < MaxApiCalls
  /\ calls' = calls + 1
  /\ UNCHANGED <<now, tz, runtime_ready, expected, lastEnd, stopped, meta, sIn, sOut>>

\* start_session(user_id, started_at_utc)
ApiStart ==
  /\ \E u \in Users, t \in ApiInstants :
       LET r == StartSession(open, u, t)
       IN  /\ open' = r.open
           /\ hist' = [ApiNoCall EXCEPT !.op = "start", !.user = u, !.at = t,
                                        !.found = (u \in DOMAIN open),
                                        !.ret = IF r.ret THEN 1 ELSE 0]
  /\ UNCHANGED daily
  /\ ApiFrame

\* end_session(user_id, ended_at_utc)
ApiEnd ==
  \E u \in Users, t \in ApiInstants :
    LET r == EndSession(open, daily, u, t, tz)
    IN  /\ ApiFrame
        /\ open' = r.open
        /\ daily' = r.daily
        /\ hist' = [ApiNoCall EXCEPT
                      !.op = "end", !.user = u, !.at = t,
                      !.found = (u \in DOMAIN open),
                      !.start = IF u \in DOMAIN open THEN open[u] ELSE 0,
                      !.segs = IF u \in DOMAIN open
                                 THEN SplitIntervalByLocalDay(open[u], t, tz)
                                 ELSE <<>>,
                      !.ret = r.ret]

\* accumulate_interval(user_id, start_utc, end_utc)
ApiAccumulate ==
  /\ \E u \in Users, s \in ApiInstants, e \in ApiInstants :
       LET r == AccumulateInterval(daily, u, s, e, tz)
       IN  /\ daily' = r.daily
           /\ hist' = [ApiNoCall EXCEPT
                         !.op = "accumulate", !.user = u, !.start = s, !.at = e,
                         !.segs = SplitIntervalByLocalDay(s, e, tz),
                         !.ret = r.total]
  /\ UNCHANGED open
  /\ ApiFrame

\* rollover_open_sessions(midnight_utc)
ApiRollover ==
  \E m \in ApiInstants :
    LET r == RolloverOpenSessions(open, daily, m, tz)
    IN  /\ ApiFrame
        /\ open' = r.open
        /\ daily' = r.daily
        /\ hist' = [ApiNoCall EXCEPT !.op = "rollover", !.at = m]

\* reseed_sessions(user_ids, started_at_utc)
ApiReseed ==
  /\ \E ids \in ApiIdLists, t \in ApiInstants :
       /\ open' = ReseedSessions(open, ids, t)
       /\ hist' = [ApiNoCall EXCEPT !.op = "reseed", !.at = t]
  /\ UNCHANGED daily
  /\ ApiFrame

\* db.add_daily_seconds(day_local, user_id, seconds)
ApiAdd ==
  /\ \E d \in Days, u \in Users, delta \in ApiDeltas :
       /\ daily' = AddDailySeconds(daily, d, u, delta)
       /\ hist' = [ApiNoCall EXCEPT !.op = "add", !.user = u, !.day = d,
                                    !.delta = delta,
                                    !.found = (<<d, u>> \in DOMAIN daily)]
  /\ UNCHANGED open
  /\ ApiFrame

\* end_session(user_id, ended_at_utc) with a naive ended_at_utc.
ApiEndNaive ==
  \E u \in Users, t \in ApiInstants :
    LET r == EndSessionChecked(open, daily, u, Naive(t), tz)
    IN  /\ ApiFrame
        /\ open' = r.open
        /\ daily' = r.daily
        /\ hist' = [ApiNoCall EXCEPT !.op = "end_naive", !.user = u, !.naive = TRUE,
                                     !.found = (u \in DOMAIN open),
                                     !.raised = r.raised, !.ret = r.ret]

\* accumulate_interval(user_id, start_utc, end_utc) with a naive bound.
ApiAccumulateNaive ==
  /\ \E u \in Users, s \in ApiInstants, e \in ApiInstants,
        a \in {<<FALSE, TRUE>>, <<TRUE, FALSE>>, <<FALSE, FALSE>>} :
       LET r == AccumulateChecked(daily, u, [t |-> s, aware |-> a[1]],
                                  [t |-> e, aware |-> a[2]], tz)
       IN  /\ daily' = r.daily
           /\ hist' = [ApiNoCall EXCEPT !.op = "accumulate_naive", !.user = u,
                                        !.naive = TRUE, !.raised = r.raised,
                                        !.ret = r.total]
  /\ UNCHANGED open
  /\ ApiFrame

ApiNext ==
  \/ ApiStart \/ ApiEnd \/ ApiAccumulate \/ ApiRollover \/ ApiReseed \/ ApiAdd
  \/ ApiEndNaive \/ ApiAccumulateNaive

ApiSpec == ApiInit /\ [][ApiNext]_vars

\* --------------------------------------------------- interleaved callers

Callers == {"c1", "c2"}

\* The intervals the callers hand to accumulate_interval.
CallerIntervals == {p \in ApiInstants \X ApiInstants : p[1] < p[2]}

\* Two callers are inside accumulate_interval, each for a user and an
\* interval.  sIn: user, the caller's user_id; todo, the segments its for
\* loop has not reached.  sOut: req, the segments of the caller's whole
\* loop; prior, daily_totals before the calls.
IncInit ==
  /\ now = 0
  /\ tz \in MainZones
  /\ open = NoRows
  /\ daily \in {NoRows, <<0, "u1">> :> 1}
  /\ runtime_ready = FALSE
  /\ expected = [k \in Days \X Users |-> 0]
  /\ lastEnd = [u \in Users |-> 0]
  /\ stopped = NeverStopped
  /\ hist = ApiNoCall
  /\ calls = 0
  /\ meta = NoRows
  /\ \E us \in [Callers -> Users], iv \in [Callers -> CallerIntervals] :
       LET segs == [c \in Callers |-> SplitIntervalByLocalDay(iv[c][1], iv[c][2], tz)]
       IN  /\ sIn = [user |-> us, todo |-> segs]
           /\ sOut = [req |-> segs, prior |-> daily]

\* One caller's next db.add_daily_seconds: a single upsert statement.
IncStep ==
  /\ \E c \in Callers :
       /\ sIn.todo[c] # <<>>
       /\ daily' = AddDailySeconds(daily, Head(sIn.todo[c]).day, sIn.user[c],
                                   Head(sIn.todo[c]).seconds)
       /\ sIn' = [sIn EXCEPT !.todo[c] = Tail(@)]
  /\ UNCHANGED <<now, tz, open, runtime_ready, expected, lastEnd, stopped, hist,
                 calls, meta, sOut>>

IncNext == IncStep

IncSpec == IncInit /\ [][IncNext]_vars

\* -------------------------------------------------------- store failures

\* The add_daily_seconds calls of accumulate_interval, in order.
AddWrites(user_id, segs) ==
  [i \in DOMAIN segs |->
     [w |-> "add", user |-> user_id, day |-> segs[i].day, n |-> segs[i].seconds]]

\* The store writes of end_session, in order: the adds, then the delete.
EndSessionWrites(op, user_id, ended, z) ==
  IF user_id \notin DOMAIN op THEN <<>>
  ELSE AddWrites(user_id, SplitIntervalByLocalDay(op[user_id], ended, z))
       \o <<[w |-> "delete", user |-> user_id, day |-> 0, n |-> 0]>>

\* The orders in which list_open_sessions can hand over the rows of the
\* users: the SELECT has no ORDER BY, the rows come in the order of their
\* insertion, which the open table of the model does not keep.
RowOrders(users) ==
  {o \in [1..Cardinality(users) -> users] : \A i, j \in DOMAIN o : i # j => o[i] # o[j]}

\* The store writes of rollover_open_sessions, in order: for every session
\* of rows (the users in the order of list_open_sessions) that started
\* before midnight its adds, then its set_open_session.
RECURSIVE RolloverWrites(_, _, _, _)
RolloverWrites(rows, snap, midnight, z) ==
  IF rows = <<>> THEN <<>>
  ELSE LET u == Head(rows)
       IN  (IF snap[u] >= midnight THEN <<>>
            ELSE AddWrites(u, SplitIntervalByLocalDay(snap[u], midnight, z))
                 \o <<[w |-> "set", user |-> u, day |-> 0, n |-> midnight]>>)
           \o RolloverWrites(Tail(rows), snap, midnight, z)

\* The tables the bot's connection reads after the first k of the writes
\* (every write is an execute and a commit of its own).
RECURSIVE ApplyWrites(_, _, _, _)
ApplyWrites(op, dl, ws, k) ==
  IF k = 0 \/ ws = <<>> THEN [open |-> op, daily |-> dl]
  ELSE LET w == Head(ws)
       IN  ApplyWrites(
             IF w.w = "delete" THEN DeleteOpenSession(op, w.user)
             ELSE IF w.w = "set" THEN SetOpenSession(op, w.user, w.n)
             ELSE op,
             IF w.w = "add" THEN AddDailySeconds(dl, w.day, w.user, w.n) ELSE dl,
             Tail(ws), k - 1)

\* A user or two are in the channel.  sIn: the call that failed; sOut: pc,
\* where the caller is; ref, the tables a call without a failure gives.
FailInit ==
  /\ now = 0
  /\ tz \in MainZones
  /\ open \in UNION { [us -> {0, DayTicks - 1}] : us \in (SUBSET Users) \ {{}} }
  /\ daily \in {NoRows, <<0, "u1">> :> 1}
  /\ runtime_ready = FALSE
  /\ expected = [k \in Days \X Users |-> 0]
  /\ lastEnd = [u \in Users |-> 0]
  /\ stopped = NeverStopped
  /\ hist = ApiNoCall
  /\ calls = 0
  /\ meta = NoRows
  /\ sIn = [op |-> "none", user |-> "", at |-> 0, written |-> 0]
  /\ sOut = [pc |-> "idle", ref |-> [open |-> open, daily |-> daily]]

\* end_session raises at a store call, `written` of its writes being
\* visible: the execute of write written + 1 raised, or the commit of write
\* `written` did (the connection then still reads that write), so written
\* can be every one of the writes.  tracker.py has no except clause, the
\* caller gets the exception.
FailingEnd ==
  /\ sOut.pc = "idle"
  /\ \E u \in Users, t \in ApiInstants :
       LET ws == EndSessionWrites(open, u, t, tz)
           ok == EndSession(open, daily, u, t, tz)
       IN  \E k \in 0..Len(ws) :
             /\ open' = ApplyWrites(open, daily, ws, k).open
             /\ daily' = ApplyWrites(open, daily, ws, k).daily
             /\ sIn' = [op |-> "end", user |-> u, at |-> t, written |-> k]
             /\ sOut' = [pc |-> "failed", ref |-> [open |-> ok.open, daily |-> ok.daily]]
  /\ UNCHANGED <<now, tz, runtime_ready, expected, lastEnd, stopped, hist, calls, meta>>

\* rollover_open_sessions raises at a store call, the rows being in any
\* order.
FailingRollover ==
  /\ sOut.pc = "idle"
  /\ \E m \in ApiInstants, rows \in RowOrders(DOMAIN open) :
       LET ws == RolloverWrites(rows, open, m, tz)
           ok == RolloverOpenSessions(open, daily, m, tz)
       IN  \E k \in 0..Len(ws) :
             /\ open' = ApplyWrites(open, daily, ws, k).open
             /\ daily' = ApplyWrites(open, daily, ws, k).daily
             /\ sIn' = [op |-> "rollover", user |-> "", at |-> m, written |-> k]
             /\ sOut' = [pc |-> "failed", ref |-> [open |-> ok.open, daily |-> ok.daily]]
  /\ UNCHANGED <<now, tz, runtime_ready, expected, lastEnd, stopped, hist, calls, meta>>

\* The caller makes the failed call again, and no store call fails.
Retry ==
  /\ sOut.pc = "failed"
  /\ LET r == IF sIn.op = "end"
                THEN EndSession(open, daily, sIn.user, sIn.at, tz)
                ELSE RolloverOpenSessions(open, daily, sIn.at, tz)
     IN  /\ open' = r.open
         /\ daily' = r.daily
  /\ sOut' = [sOut EXCEPT !.pc = "retried"]
  /\ UNCHANGED <<now, tz, runtime_ready, expected, lastEnd, stopped, hist, calls,
                 meta, sIn>>

FailNext == FailingEnd \/ FailingRollover \/ Retry

FailSpec == FailInit /\ [][FailNext]_vars

\* -------------------------------------------------------------- cooldown

MaxCooldown == 4

\* now.astimezone(timezone.utc).isoformat(): the wall clock reading and the
\* offset "+00:00" (record_manual_report, report_now).
IsoFormatUtc(t) == [kind |-> "aware", wall |-> t, off |-> 0]

\* parse_iso_utc: <<>> for None; a naive reading is taken as UTC, an aware
\* one is moved to UTC by its offset (seconds).
ParseIsoUtc(value) ==
  IF value.kind \in {"none", "empty"} THEN <<>>
  ELSE IF value.kind = "naive" THEN <<value.wall>>
  ELSE <<value.wall - value.off * TicksPerSecond>>

\* A remaining_cooldown_seconds without the max(0, ...).
RemainingCooldownUnclamped(last_run_iso_utc, cooldown_seconds, now_utc) ==
  IF cooldown_seconds <= 0 THEN 0
  ELSE LET last_run == ParseIsoUtc(last_run_iso_utc)
       IN  IF last_run = <<>> THEN 0
           ELSE cooldown_seconds - WholeSeconds(now_utc - last_run[1])

\* remaining_cooldown_seconds
RemainingCooldownSeconds(last_run_iso_utc, cooldown_seconds, now_utc) ==
  IF cooldown_seconds <= 0 THEN 0
  ELSE LET last_run == ParseIsoUtc(last_run_iso_utc)
       IN  IF last_run = <<>> THEN 0
           ELSE Max2(0, cooldown_seconds - WholeSeconds(now_utc - last_run[1]))

\* The values get_meta can hand over: None, the empty string, what
\* record_manual_report wrote, a reading without offset, and a reading
\* with an offset of two seconds.
StoredRuns ==
  {[kind |-> "none", wall |-> 0, off |-> 0], [kind |-> "empty", wall |-> 0, off |-> 0]}
  \cup {IsoFormatUtc(t) : t \in Instants}
  \cup {[kind |-> "naive", wall |-> t, off |-> 0] : t \in Instants}
  \cup {[kind |-> "aware", wall |-> t, off |-> 2] : t \in Instants}

CoolInit ==
  /\ MainInit
  /\ tz = [base |-> 0, at |-> 0, off |-> 0]
  /\ sIn \in [last : StoredRuns, cooldown : -1..MaxCooldown, now : Instants]
  /\ sOut = [done |-> FALSE, ret |-> 0]

\* One call of remaining_cooldown_seconds.
CoolCall ==
  /\ ~sOut.done
  /\ sOut' = [done |-> TRUE,
              ret |-> RemainingCooldownSeconds(sIn.last, sIn.cooldown, sIn.now)]
  /\ UNCHANGED <<now, tz, open, daily, runtime_ready, expected, lastEnd, stopped,
                 hist, calls, meta, sIn>>

CoolNext == CoolCall

CoolSpec == CoolInit /\ [][CoolNext]_vars

\* ------------------------------------------------------- gateway events

\* The number of gateway events and restarts of a run.
MaxEvents == 3

\* before.channel / after.channel of a voice-state event: no channel, the
\* tracked channel, another channel.
Channels == {"none", "tracked", "other"}

\* member.bot, member.guild (the configured guild or another one), and
\* the two channels: every move of a human member in the configured
\* guild, and the entering and leaving of a bot and of a member of
\* another guild.
VoiceEvents ==
  [user : Users, bot : {FALSE}, home : {TRUE}, before : Channels, after : Channels]
  \cup [user : Users, bot : BOOLEAN, home : BOOLEAN,
         before : {"none"}, after : {"tracked"}]
  \cup [user : Users, bot : BOOLEAN, home : BOOLEAN,
         before : {"tracked"}, after : {"none"}]

\* An on_voice_state_update without the member.bot check.
OnVoiceStateUpdateWithBots(ready, op, dl, ev, t, z) ==
  IF ~ready \/ ~ev.home THEN [open |-> op, daily |-> dl]
  ELSE IF ev.before # "tracked" /\ ev.after = "tracked"
    THEN [open |-> StartSession(op, ev.user, t).open, daily |-> dl]
  ELSE IF ev.before = "tracked" /\ ev.after # "tracked"
    THEN [open |-> EndSession(op, dl, ev.user, t, z).open,
          daily |-> EndSession(op, dl, ev.user, t, z).daily]
  ELSE [open |-> op, daily |-> dl]

\* on_voice_state_update: the tables after the handler.
OnVoiceStateUpdate(ready, op, dl, ev, t, z) ==
  IF ~ready THEN [open |-> op, daily |-> dl]
  ELSE IF ev.bot THEN [open |-> op, daily |-> dl]
  ELSE IF ~ev.home THEN [open |-> op, daily |-> dl]
  ELSE IF ev.before # "tracked" /\ ev.after = "tracked"
    THEN [open |-> StartSession(op, ev.user, t).open, daily |-> dl]
  ELSE IF ev.before = "tracked" /\ ev.after # "tracked"
    THEN [open |-> EndSession(op, dl, ev.user, t, z).open,
          daily |-> EndSession(op, dl, ev.user, t, z).daily]
  ELSE [open |-> op, daily |-> dl]

\* An on_ready without the `if self.runtime_ready: return`.
OnReadyEveryTime(ready, op, valid, ids, t) ==
  IF valid
    THEN [ready |-> TRUE, open |-> ReseedSessions(op, ids, t), reseeded |-> TRUE]
    ELSE [ready |-> ready, open |-> op, reseeded |-> FALSE]

\* on_ready: valid is whether _validate_runtime_resources finds the guild,
\* the channels and the permissions; ids are the human members in the
\* tracked channel.
OnReadyHandler(ready, op, valid, ids, t) ==
  IF ready THEN [ready |-> TRUE, open |-> op, reseeded |-> FALSE]
  ELSE IF valid
    THEN [ready |-> TRUE, open |-> ReseedSessions(op, ids, t), reseeded |-> TRUE]
    ELSE [ready |-> FALSE, open |-> op, reseeded |-> FALSE]

\* sOut is that of the scheduler, with reseeds, the number of reseeds this
\* process has made.  calls counts the gateway events and the restarts: a
\* step that raises it is one of them, and hist describes it.
EventInit ==
  /\ MainInit
  /\ tz = [base |-> 0, at |-> 0, off |-> 0]
  /\ sIn = <<0, 0>>
  /\ sOut = [rolls |-> [d \in Days |-> 0], fails |-> [d \in Days |-> 0],
             posted |-> [d \in Days |-> 0], pc |-> "idle", target |-> 0,
             reseeds |-> 0]

EventFrame ==
  /\ calls < MaxEvents /\ calls' = calls + 1
  /\ UNCHANGED <<now, tz, expected, lastEnd, stopped, meta, sIn>>

\* The gateway delivers a voice-state event.
VoiceEvent ==
  /\ \E ev \in VoiceEvents :
       LET r == OnVoiceStateUpdate(runtime_ready, open, daily, ev, now, tz)
       IN  /\ open' = r.open
           /\ daily' = r.daily
           /\ hist' = [NoCall EXCEPT !.op = "voice", !.ev = ev]
  /\ UNCHANGED <<runtime_ready, sOut>>
  /\ EventFrame

\* The gateway delivers ready (at the start, and after every reconnect).
ReadyEvent ==
  /\ \E valid \in BOOLEAN, ids \in ApiIdLists :
       LET r == OnReadyHandler(runtime_ready, open, valid, ids, now)
       IN  /\ runtime_ready' = r.ready
           /\ open' = r.open
           /\ hist' = [NoCall EXCEPT !.op = IF r.reseeded THEN "reseed" ELSE "ready",
                                     !.ids = IF r.reseeded THEN ids ELSE <<>>]
           /\ sOut' = [sOut EXCEPT !.reseeds = IF r.reseeded THEN @ + 1 ELSE @]
  /\ UNCHANGED daily
  /\ EventFrame

\* The process ends and main() starts a new one on the same database.
Restart ==
  /\ runtime_ready' = FALSE
  /\ sOut' = [sOut EXCEPT !.pc = "idle", !.reseeds = 0]
  /\ hist' = [NoCall EXCEPT !.op = "stop"]
  /\ UNCHANGED <<open, daily>>
  /\ EventFrame

EventNext == LoopTick \/ PostDone \/ VoiceEvent \/ ReadyEvent \/ Restart

EventSpec == EventInit /\ [][EventNext]_vars

\* ------------------------------------------------------------ /report-now

MANUAL_REPORT_META_KEY == "last_manual_report_at_utc"

\* The invocations of /report-now that can be in progress together.
Handlers == {"h1", "h2"}

\* What report_now reads with db.get_meta(MANUAL_REPORT_META_KEY).
LastManual(mt) ==
  IF GetMeta(mt, MANUAL_REPORT_META_KEY) = <<>>
    THEN [kind |-> "none", wall |-> 0, off |-> 0]
    ELSE GetMeta(mt, MANUAL_REPORT_META_KEY)[1]

\* VoiceTrackerBot.record_manual_report
RecordManualReport(mt, now_utc) ==
  SetMeta(mt, MANUAL_REPORT_META_KEY, IsoFormatUtc(now_utc))

\* report_now's `if cooldown_remaining > 0`.
CooldownActive(mt, cooldown_seconds, now_utc) ==
  RemainingCooldownSeconds(LastManual(mt), cooldown_seconds, now_utc) > 0

\* runtime_ready stands for bot.report_channel, which
\* _validate_runtime_resources sets together with it: the channel is None
\* exactly while runtime_ready is false.
\* sIn.cooldown is report_now_cooldown_seconds (positive, config.py).
\* sOut.pc is where each invocation stands: "idle", or "posting" at the
\* await of post_report; sOut.at is the `now` the invocation took;
\* sOut.posts are the `now` of the invocations whose report was sent, in
\* the order of the sends; sOut.refused is 1 once the cooldown refused one.
RepInit ==
  /\ now = 0
  /\ open = NoRows
  /\ daily = NoRows
  /\ runtime_ready \in BOOLEAN
  /\ expected = [k \in Days \X Users |-> 0]
  /\ lastEnd = [u \in Users |-> 0]
  /\ stopped = NeverStopped
  /\ hist = NoCall
  /\ calls = 0
  /\ meta = NoRows
  /\ tz = [base |-> 0, at |-> 0, off |-> 0]
  /\ sIn \in [cooldown : 1..MaxCooldown]
  /\ sOut = [pc |-> [h \in Handlers |-> "idle"], at |-> [h \in Handlers |-> 0],
             posts |-> <<>>, refused |-> 0]

RepFrame ==
  UNCHANGED <<now, tz, open, daily, runtime_ready, expected, lastEnd, stopped,
              hist, sIn>>

RepTick ==
  /\ \E t \in (now + 1)..MaxTime : now' = t
  /\ UNCHANGED <<tz, open, daily, runtime_ready, expected, lastEnd, stopped,
                 hist, calls, meta, sIn, sOut>>

\* report_now from its start to the await of post_report, or to the
\* cooldown message.
RepInvoke ==
  /\ calls < MaxCalls /\ calls' = calls + 1
  /\ \E h \in Handlers :
       /\ sOut.pc[h] = "idle"
       /\ IF CooldownActive(meta, sIn.cooldown, now)
            THEN sOut' = [sOut EXCEPT !.refused = 1]
            ELSE IF ~runtime_ready
              THEN sOut' = sOut
              ELSE sOut' = [sOut EXCEPT !.pc[h] = "posting", !.at[h] = now]
  /\ UNCHANGED meta
  /\ RepFrame

\* post_report returns or raises, and report_now runs to its end.
RepPosted ==
  /\ \E h \in Handlers, ok \in BOOLEAN :
       /\ sOut.pc[h] = "posting"
       /\ IF ok
            THEN /\ meta' = SetMeta(meta, MANUAL_REPORT_META_KEY, IsoFormatUtc(sOut.at[h]))
                 /\ sOut' = [sOut EXCEPT !.pc[h] = "idle",
                                         !.posts = Append(@, sOut.at[h])]
            ELSE /\ meta' = meta
                 /\ sOut' = [sOut EXCEPT !.pc[h] = "idle"]
  /\ UNCHANGED calls
  /\ RepFrame

\* VoiceTrackerBot.record_manual_report with now_utc = None: the marker
\* is written without a cooldown check and without a post.  No handler of
\* the repository calls the method.
RepRecord ==
  /\ calls < MaxCalls /\ calls' = calls + 1
  /\ meta' = RecordManualReport(meta, now)
  /\ UNCHANGED sOut
  /\ RepFrame

RepNext == RepTick \/ RepInvoke \/ RepPosted \/ RepRecord

RepSpec == RepInit /\ [][RepNext]_vars

\* ------------------------------------------------- whole-second sessions

\* start_session, end_session and rollover_open_sessions called at whole
\* seconds that never decrease, without reseed.  sIn.since is the instant
\* of the user's join when the user is present (-1 otherwise), sIn.closed
\* the ticks of the user's presence intervals that have ended.
SecondInstants == {t \in Instants : t % TicksPerSecond = 0}

ConsInit ==
  /\ MainInit
  /\ tz \in MainZones
  /\ sIn = [since |-> [u \in Users |-> -1], closed |-> [u \in Users |-> 0]]
  /\ sOut = [done |-> FALSE, segs |-> <<>>]

ConsFrame ==
  /\ calls < MaxCalls /\ calls' = calls + 1
  /\ UNCHANGED <<now, tz, runtime_ready, expected, lastEnd, stopped, meta, sOut>>

ConsTick ==
  /\ \E t \in SecondInstants : t > now /\ now' = t
  /\ hist' = NoCall
  /\ UNCHANGED <<tz, open, daily, runtime_ready, expected, lastEnd, stopped,
                 calls, meta, sIn, sOut>>

ConsStart ==
  /\ \E u \in Users :
       LET r == StartSession(open, u, now)
       IN  /\ open' = r.open
           /\ hist' = Call("start", u, <<>>, now, r.ret, 0, {})
           /\ sIn' = IF r.ret THEN [sIn EXCEPT !.since[u] = now] ELSE sIn
  /\ UNCHANGED daily
  /\ ConsFrame

ConsEnd ==
  /\ \E u \in Users :
       LET r == EndSession(open, daily, u, now, tz)
       IN  /\ open' = r.open
           /\ daily' = r.daily
           /\ hist' = Call("end", u, <<>>, now, FALSE, r.ret, {})
           /\ sIn' = IF u \in DOMAIN open
                       THEN [sIn EXCEPT !.since[u] = -1,
                                        !.closed[u] = @ + (now - sIn.since[u])]
                       ELSE sIn
  /\ ConsFrame

ConsRollover ==
  /\ LET r == RolloverOpenSessions(open, daily, now, tz)
     IN  /\ open' = r.open
         /\ daily' = r.daily
         /\ hist' = Call("rollover", "", <<>>, now, FALSE, 0, Rolled(open, now))
  /\ UNCHANGED sIn
  /\ ConsFrame

ConsNext == ConsTick \/ ConsStart \/ ConsEnd \/ ConsRollover

ConsSpec == ConsInit /\ [][ConsNext]_vars

\* ------------------------------------------------------- totals harness

\* open_sessions tables with every started_at at or before the clock.
OpenTables(t) ==
  UNION { [us -> 0..t] : us \in SUBSET Users }

\* daily_totals tables with at most one row a user, u1's of one second and
\* u2's of two.
DailyTables ==
  UNION { {[k \in {<<f[u], u>> : u \in us} |-> IF k[2] = "u1" THEN 1 ELSE 2] :
             f \in [us -> Days]} : us \in SUBSET Users }

ReadInit ==
  /\ now \in Instants
  /\ tz \in MainZones
  /\ open \in OpenTables(now)
  /\ daily \in DailyTables
  /\ runtime_ready = TRUE
  /\ expected = [k \in Days \X Users |-> 0]
  /\ lastEnd = [u \in Users |-> 0]
  /\ stopped = NeverStopped
  /\ hist = NoCall
  /\ calls = 0
  /\ meta = NoRows
  /\ sIn = [day |-> 0, include_live |-> FALSE]
  /\ sOut = [done |-> FALSE, totals |-> NoRows, again |-> FALSE]

\* One call of get_totals_for_day at the clock's instant; again tells that
\* the call before had the same arguments, totals is the mapping returned.
ReadCall ==
  \E day \in Days, live \in BOOLEAN :
    LET r == GetTotalsForDay(daily, open, day, tz, live, now)
    IN  /\ sIn' = [day |-> day, include_live |-> live]
        /\ sOut' = [done |-> TRUE, totals |-> r.totals,
                    again |-> sOut.done /\ sIn = sIn']
        /\ open' = r.open
        /\ daily' = r.daily
        /\ UNCHANGED <<now, tz, runtime_ready, expected, lastEnd, stopped, hist,
                       calls, meta>>

ReadNext == ReadCall

ReadSpec == ReadInit /\ [][ReadNext]_vars

\* ----------------------------------------------------------------- claims

\* The set of ids in a user_ids list.
IdSet(ids) == {ids[i] : i \in DOMAIN ids}

\* The segments the code computes for [start, end) in the configured zone.
Segs(start, end) == SplitIntervalByLocalDay(start, end, tz)

\* C1: in every reachable state each daily_totals row holds exactly the sum
\* of the seconds the intervals closed so far (by end_session and by
\* rollover_open_sessions) give that day and user, there is no row without
\* such seconds, and no closed interval reaches past the started_at of the
\* user's open session: live time is in no stored total.
C1_DailyTotalIsClosedTime ==
  /\ DOMAIN daily \subseteq Days \X Users
  /\ \A k \in Days \X Users : DailySeconds(daily, k[1], k[2]) = expected[k]
  /\ \A k \in DOMAIN daily : daily[k] > 0
  /\ \A u \in DOMAIN open : lastEnd[u] <= open[u]

\* A user with stored seconds and an open session that has run for more
\* than a second.
C1_Witness ==
  \E u \in DOMAIN open :
    /\ \E d \in Days : DailySeconds(daily, d, u) > 0
    /\ now >= open[u] + TicksPerSecond

\* C2: for start < end the seconds of the returned entries sum to
\* floor(end - start in seconds).
C2_SumIsFloor ==
  (sOut.done /\ sIn[1] < sIn[2]) =>
    SumSeconds(sOut.segs) = (sIn[2] - sIn[1]) \div TicksPerSecond

\* C3: the splitter never returns two entries with the same day key, the
\* day keys increase strictly, and every seconds value is positive.
C3_KeysIncreaseSecondsPositive ==
  sOut.done =>
    /\ \A i \in DOMAIN sOut.segs : sOut.segs[i].seconds > 0
    /\ \A i, j \in DOMAIN sOut.segs : i < j => sOut.segs[i].day < sOut.segs[j].day

\* An interval across an offset change, split into two entries or more.
C3_Witness ==
  /\ sOut.done
  /\ Len(sOut.segs) >= 2
  /\ tz.off # tz.base
  /\ sIn[1] < tz.at * TicksPerSecond
  /\ tz.at * TicksPerSecond < sIn[2]

\* C4: a rollover_open_sessions(midnight) that follows one with the same
\* midnight, no session change in between (the run of the loop that made
\* the first has ended, its post having failed), changes no daily_totals
\* value and no open_sessions row.
C4_RolloverTwice ==
  [][(hist.op = "posted" /\ hist'.op = "rollover" /\ hist'.at = hist.at)
       => (daily' = daily /\ open' = open)]_vars

\* The second of two rollovers with one midnight, the first of which moved
\* a session.
C4_Witness == hist.op = "rollover" /\ hist.again

\* C5: rollover_open_sessions(midnight) adds, for every open session with
\* started_at < midnight, exactly the split of [started_at, midnight) to the
\* user's day rows and sets its started_at to midnight; any other session
\* and any other row is unchanged, and the same users have an open session.
C5_RolloverCredits ==
  [][hist'.op = "rollover" =>
       LET m == hist'.at
       IN  /\ DOMAIN open' = DOMAIN open
           /\ \A u \in DOMAIN open :
                open'[u] = IF open[u] < m THEN m ELSE open[u]
           /\ \A d \in Days, u \in Users :
                DailySeconds(daily', d, u) =
                  DailySeconds(daily, d, u)
                  + (IF u \in DOMAIN open /\ open[u] < m
                       THEN SecondsOn(Segs(open[u], m), d) ELSE 0)]_vars

\* A rollover that moved and credited one session and left another alone.
C5_Witness ==
  /\ hist.op = "rollover"
  /\ \E u \in hist.rolled : \E d \in Days : DailySeconds(daily, d, u) > 0
  /\ \E u \in DOMAIN open : u \notin hist.rolled /\ open[u] > hist.at

\* C6: start_session for a user with an open session returns False and
\* changes no row: the user's one row keeps the first started_at.
C6_DuplicateStart ==
  [][(hist'.op = "start" /\ hist'.user \in DOMAIN open)
       => (~hist'.started /\ open' = open /\ daily' = daily)]_vars

\* A duplicate start, later than the first.
C6_Witness ==
  /\ hist.op = "start" /\ hist.had /\ ~hist.started
  /\ hist.user \in DOMAIN open /\ open[hist.user] < hist.at

\* C7: end_session for a user with no open session returns 0 and changes
\* no daily_totals row and no open_sessions row.
C7_SpuriousEnd ==
  [][(hist'.op = "end" /\ hist'.user \notin DOMAIN open)
       => (hist'.tracked = 0 /\ daily' = daily /\ open' = open)]_vars

\* A spurious end while another user has a session and rows are stored.
C7_Witness ==
  /\ hist.op = "end" /\ ~hist.had
  /\ open # NoRows /\ daily # NoRows

\* The sum of the seconds column over a user's rows.
RECURSIVE UserSeconds(_, _, _)
UserSeconds(dl, user_id, days) ==
  IF days = {} THEN 0
  ELSE LET d == CHOOSE x \in days : TRUE
       IN  DailySeconds(dl, d, user_id) + UserSeconds(dl, user_id, days \ {d})

\* C8: end_session for a user with a session open since t0, called at
\* t1 > t0, deletes the user's row only, adds exactly the split of [t0, t1)
\* to the user's day rows, and returns the seconds added over all rows; in
\* a zone without offset change, on an empty table and with t0 and t1 on
\* one local day, the table afterwards is {day: {user: whole seconds}}.
C8_EndSession ==
  [][(hist'.op = "end" /\ hist'.user \in DOMAIN open /\ open[hist'.user] < hist'.at) =>
       LET u == hist'.user
           t0 == open[u]
           t1 == hist'.at
       IN  /\ open' = [x \in (DOMAIN open) \ {u} |-> open[x]]
           /\ \A d \in Days, x \in Users :
                DailySeconds(daily', d, x) =
                  DailySeconds(daily, d, x)
                  + (IF x = u THEN SecondsOn(Segs(t0, t1), d) ELSE 0)
           /\ hist'.tracked = UserSeconds(daily', u, Days) - UserSeconds(daily, u, Days)
           /\ (tz.off = tz.base /\ daily = NoRows /\ LocalDay(tz, t0) = LocalDay(tz, t1)
               /\ t1 - t0 >= TicksPerSecond)
                => daily' = (<<LocalDay(tz, t0), u>> :> WholeSeconds(t1 - t0))]_vars

\* An end that returned seconds spread over two days.
C8_Witness ==
  /\ hist.op = "end" /\ hist.had /\ hist.tracked >= 2
  /\ \E d1, d2 \in Days :
       /\ d1 # d2
       /\ DailySeconds(daily, d1, hist.user) > 0
       /\ DailySeconds(daily, d2, hist.user) > 0
       /\ hist.tracked = DailySeconds(daily, d1, hist.user) + DailySeconds(daily, d2, hist.user)

\* C9: after the reseed of a restart, the time of every session that was
\* open when the process exited, from its started_at to the exit, has been
\* added to the user's day rows.
C9_NoTimeLostAcrossRestart ==
  (hist.op = "reseed" /\ stopped.seen) =>
    \A u \in DOMAIN stopped.open : \A d \in Days :
      DailySeconds(daily, d, u) >=
        DailySeconds(stopped.daily, d, u) + SecondsOn(Segs(stopped.open[u], stopped.at), d)

\* C10: reseed_sessions(user_ids, t) leaves exactly one open_sessions row
\* per distinct id of user_ids, each with started_at = t, whatever rows
\* were there, and changes no daily_totals row.
C10_Reseed ==
  [][hist'.op = "reseed" =>
       /\ DOMAIN open' = IdSet(hist'.ids)
       /\ \A u \in DOMAIN open' : open'[u] = hist'.at
       /\ daily' = daily]_vars

\* A reseed with a repeated id that found the row of another user, with
\* time to its name, and removed it.
C10_Witness ==
  /\ hist.op = "reseed" /\ stopped.seen
  /\ Len(hist.ids) > Cardinality(IdSet(hist.ids))
  /\ \E u \in DOMAIN stopped.open :
       u \notin DOMAIN open /\ stopped.open[u] + TicksPerSecond <= stopped.at

\* The value the returned mapping gives a user, 0 for a user it leaves out.
TotalOf(totals, u) == IF u \in DOMAIN totals THEN totals[u] ELSE 0

\* Every instant of [start, end) is on the local day, and so is start.
InsideDay(start, end, day) ==
  \A t \in start..Max2(start, end - 1) : LocalDay(tz, t) = day

\* C11: get_totals_for_day without include_live returns exactly the stored
\* rows of the day; with include_live, when every open session lies inside
\* the day, a user's value is the stored seconds plus the whole seconds of
\* now - started_at of the user's open session, and a user with a session
\* of a second or more and no row is in the mapping.
C11_TotalsForDay ==
  sOut.done =>
    /\ ~sIn.include_live =>
         /\ DOMAIN sOut.totals = {u \in Users : <<sIn.day, u>> \in DOMAIN daily}
         /\ \A u \in DOMAIN sOut.totals : sOut.totals[u] = daily[<<sIn.day, u>>]
    /\ (sIn.include_live /\ \A u \in DOMAIN open : InsideDay(open[u], now, sIn.day)) =>
         \A u \in Users :
           /\ TotalOf(sOut.totals, u) =
                DailySeconds(daily, sIn.day, u)
                + (IF u \in DOMAIN open THEN WholeSeconds(now - open[u]) ELSE 0)
           /\ (u \in DOMAIN open /\ now - open[u] >= TicksPerSecond) =>
                u \in DOMAIN sOut.totals

\* C12: a call of get_totals_for_day, with or without include_live, changes
\* no row of open_sessions, daily_totals or meta, and a call with the
\* arguments of the call before it returns the same mapping.
C12_ReadChangesNothing ==
  [][/\ open' = open
     /\ daily' = daily
     /\ meta' = meta
     /\ sOut'.again => sOut'.totals = sOut.totals]_vars

\* The second of two calls with include_live for a day on which a user has
\* a stored row and live seconds.
C12_Witness ==
  /\ sOut.done /\ sOut.again /\ sIn.include_live
  /\ \E u \in DOMAIN open :
       /\ <<sIn.day, u>> \in DOMAIN daily
       /\ sOut.totals[u] > daily[<<sIn.day, u>>]

\* The ticks of [start, end) on the local day.
TicksOn(start, end, day) ==
  Cardinality({t \in start..(end - 1) : LocalDay(tz, t) = day})

\* C13: for an open session that is on more than one local day at the
\* read, get_totals_for_day with include_live adds for the user the whole
\* seconds of the part of [started_at, now) on the requested day, and
\* nothing for a day no instant of the session is on.
C13_LiveSecondsOfTheDay ==
  (sOut.done /\ sIn.include_live) =>
    \A u \in DOMAIN open :
      (\E t \in open[u]..(now - 1) : LocalDay(tz, t) # LocalDay(tz, open[u])) =>
        TotalOf(sOut.totals, u) - DailySeconds(daily, sIn.day, u)
          = WholeSeconds(TicksOn(open[u], now, sIn.day))

\* C14: on every local date the scheduler calls rollover_open_sessions at
\* most once, whatever the ticks and the outcomes of the posts.
C14_RolloverOncePerMidnight ==
  \A d \in Days : sOut.rolls[d] <= 1

\* C15: every daily_totals value is a non-negative integer; no call of a
\* core function or of add_daily_seconds deletes a row or lowers its value;
\* add_daily_seconds with seconds <= 0 leaves the table as it is and adds
\* no row.
C15_TotalsNeverDecrease ==
  /\ [](\A k \in DOMAIN daily : daily[k] \in Nat)
  /\ [][/\ \A k \in DOMAIN daily : k \in DOMAIN daily' /\ daily'[k] >= daily[k]
        /\ (hist'.op = "add" /\ hist'.delta <= 0) => daily' = daily]_vars

\* An increment of -1 asked for a row that is not there, the table holding
\* another row.
C15_Witness ==
  /\ hist.op = "add" /\ hist.delta < 0 /\ ~hist.found
  /\ daily # NoRows

\* The seconds a caller's loop has added so far to the row of a day and user.
AddedBy(c, day, u) ==
  IF sIn.user[c] = u
    THEN SecondsOn(sOut.req[c], day) - SecondsOn(sIn.todo[c], day)
    ELSE 0

\* C16: however the add_daily_seconds calls of two callers interleave,
\* every row holds its prior value plus the increments both callers have
\* made to it; when both are done, prior plus the sum of both deltas.
C16_NoLostUpdate ==
  \A d \in Days, u \in Users :
    DailySeconds(daily, d, u) =
      DailySeconds(sOut.prior, d, u) + AddedBy("c1", d, u) + AddedBy("c2", d, u)

\* Both callers are done and both have added to one row that had a value
\* before.
C16_Witness ==
  /\ \A c \in Callers : sIn.todo[c] = <<>>
  /\ \E k \in DOMAIN sOut.prior :
       \A c \in Callers : sIn.user[c] = k[2] /\ SecondsOn(sOut.req[c], k[1]) > 0

\* C17: after end_session or rollover_open_sessions failed at a store call
\* and the caller made the call again, daily_totals is what one call
\* without a failure gives.
C17_RetryGivesSameTotals ==
  sOut.pc = "retried" => daily = sOut.ref.daily

\* The local midnights inside (start, end): the instants at which the wall
\* clock reads 00:00:00.
MidnightsIn(start, end) ==
  {m \in (start + 1)..(end - 1) : ToLocal(tz, m) % DayTicks = 0}

\* C18: an interval with exactly one local midnight inside is split into
\* exactly two entries: the whole seconds from start to the midnight under
\* the day of start, and the whole seconds from the midnight to end under
\* the next day.
C18_OneMidnightTwoEntries ==
  (sOut.done /\ Cardinality(MidnightsIn(sIn[1], sIn[2])) = 1) =>
    LET m == CHOOSE x \in MidnightsIn(sIn[1], sIn[2]) : TRUE
    IN  sOut.segs =
          << [day |-> LocalDay(tz, sIn[1]), seconds |-> WholeSeconds(m - sIn[1])],
             [day |-> LocalDay(tz, sIn[1]) + 1, seconds |-> WholeSeconds(sIn[2] - m)] >>

\* C19: for end <= start the splitter returns no entry, accumulate_interval
\* returns 0 and writes nothing, and end_session of an open session with
\* ended_at <= started_at returns 0, writes no daily_totals row and deletes
\* the session.
C19_NonPositiveAbsorbed ==
  [][/\ (hist'.op = "accumulate" /\ hist'.at <= hist'.start) =>
          /\ hist'.segs = <<>> /\ hist'.ret = 0
          /\ daily' = daily /\ open' = open
     /\ (hist'.op = "end" /\ hist'.found /\ hist'.at <= hist'.start) =>
          /\ hist'.segs = <<>> /\ hist'.ret = 0
          /\ daily' = daily
          /\ open' = DeleteOpenSession(open, hist'.user)
          /\ hist'.user \notin DOMAIN open']_vars

\* An end_session at an instant before the started_at of the session it
\* found, the other user's session staying open.
C19_Witness ==
  /\ hist.op = "end" /\ hist.found /\ hist.at < hist.start
  /\ hist.user \notin DOMAIN open
  /\ open # NoRows

\* The UTC instant a stored last-run value names.
LastRunInstant(value) == value.wall - value.off * TicksPerSecond

\* C20: remaining_cooldown_seconds is never negative; it is 0 when there
\* is no last run or the cooldown is <= 0; otherwise, the last run not
\* being later than now, it is the cooldown less the whole seconds elapsed
\* since the last run, and 0 when that is negative.
C20_RemainingCooldown ==
  sOut.done =>
    /\ sOut.ret >= 0
    /\ (sIn.last.kind \in {"none", "empty"} \/ sIn.cooldown <= 0) => sOut.ret = 0
    /\ (sIn.last.kind \notin {"none", "empty"} /\ sIn.cooldown > 0
          /\ LastRunInstant(sIn.last) <= sIn.now) =>
         LET elapsed == (sIn.now - LastRunInstant(sIn.last)) \div TicksPerSecond
         IN  sOut.ret = IF sIn.cooldown > elapsed THEN sIn.cooldown - elapsed ELSE 0

\* A last run written by record_manual_report a second and a half ago,
\* half of the cooldown being left.
C20_Witness ==
  /\ sOut.done
  /\ sIn.last = IsoFormatUtc(sIn.now - TicksPerSecond - 1)
  /\ sIn.cooldown = 2
  /\ sOut.ret = 1

\* C21: with a bound that has no tzinfo the splitter raises; an
\* accumulate_interval with such a bound, and an end_session of an open
\* session with such an ended_at, raise, write no daily_totals row and
\* leave the open_sessions rows as they are.
C21_NaiveBoundRaises ==
  [][(hist'.naive /\ (hist'.op = "accumulate_naive"
                      \/ (hist'.op = "end_naive" /\ hist'.found))) =>
       /\ hist'.raised
       /\ daily' = daily
       /\ open' = open]_vars

\* An end_session with a naive ended_at raised, and the user's session is
\* still open.
C21_Witness ==
  /\ hist.op = "end_naive" /\ hist.naive /\ hist.raised
  /\ hist.user \in DOMAIN open

\* The ticks of the user's presence intervals up to the instant t.
PresenceTicks(u, t) ==
  sIn.closed[u] + (IF sIn.since[u] >= 0 THEN t - sIn.since[u] ELSE 0)

\* The user's seconds over the days, read with include_live at t.
RECURSIVE LiveSecondsOver(_, _, _)
LiveSecondsOver(u, t, days) ==
  IF days = {} THEN 0
  ELSE LET d == CHOOSE x \in days : TRUE
       IN  TotalOf(GetTotalsForDay(daily, open, d, tz, TRUE, t).totals, u)
             + LiveSecondsOver(u, t, days \ {d})

\* C22: with start_session, end_session and rollover_open_sessions called
\* at whole seconds that never decrease, for every user and every whole
\* second t from now on, the user's seconds read with include_live at t,
\* summed over all local days, are the length of the user's presence
\* intervals up to t.
C22_Conservation ==
  /\ \A k \in DOMAIN daily : k[1] \in Days
  /\ \A u \in Users : \A t \in {x \in SecondInstants : x >= now} :
       LiveSecondsOver(u, t, Days) * TicksPerSecond = PresenceTicks(u, t)

\* Whether the user has an open_sessions row after the call hist describes,
\* had being whether the user had one before it: a join leaves a row, a
\* leave none, a reseed a row for the users it lists, and every other
\* step leaves it as it was.
RowAfter(h, u, had) ==
  IF h.op = "start" /\ h.user = u THEN TRUE
  ELSE IF h.op = "end" /\ h.user = u THEN FALSE
  ELSE IF h.op = "reseed" THEN u \in IdSet(h.ids)
  ELSE had

\* C23: open_sessions holds at most one row a user (it is keyed by
\* user_id); a user has a row exactly when the user's last join, leave or
\* reseed was a join or a reseed listing the user; and the started_at of
\* a session that no leave or reseed ends changes in
\* rollover_open_sessions only, and only to a later instant.
C23_OpenSessionRows ==
  /\ [](DOMAIN open \subseteq Users)
  /\ [][\A u \in Users :
          /\ (u \in DOMAIN open') <=> RowAfter(hist', u, u \in DOMAIN open)
          /\ (/\ u \in DOMAIN open /\ u \in DOMAIN open'
              /\ hist'.op # "reseed"
              /\ open'[u] # open[u])
               => (hist'.op = "rollover" /\ open'[u] > open[u])]_vars

\* A rollover moved the started_at of a session that stays open, while
\* another user has no session.
C23_Witness ==
  /\ hist.op = "rollover"
  /\ \E u \in hist.rolled : u \in DOMAIN open /\ open[u] = hist.at
  /\ DOMAIN open # Users

\* C24: of the /report-now invocations whose report was sent, no two took
\* their `now` less than the cooldown apart, however the handlers
\* interleave at the await of the post.
C24_OnePostPerWindow ==
  \A i \in DOMAIN sOut.posts : \A j \in DOMAIN sOut.posts :
    i < j =>
      WholeSeconds(Max2(sOut.posts[j] - sOut.posts[i], sOut.posts[i] - sOut.posts[j]))
        >= sIn.cooldown

\* The day the last_auto_report_day marker names, <<>> without a marker.
AutoMarker == GetMeta(meta, AUTO_REPORT_META_KEY)

\* C25: the last_auto_report_day marker changes only when a post of the
\* scheduler has returned, and then to the day of that report; a post
\* that fails leaves the marker as it is; a run of the loop in a 00:00
\* minute in which a post has failed and none has returned attempts the
\* report of the same day again, and its rollover changes no total; and
\* on no local date more than one post returns.
C25_MarkerAfterPost ==
  /\ [](\A d \in Days : sOut.posted[d] <= 1)
  /\ [][/\ AutoMarker' # AutoMarker =>
             /\ sOut.pc = "posting"
             /\ sOut'.posted[sOut.target + 1] = sOut.posted[sOut.target + 1] + 1
             /\ AutoMarker' = <<sOut.target>>
        /\ sOut'.fails # sOut.fails => AutoMarker' = AutoMarker
        /\ (/\ now' # now
            /\ InMidnightMinute(tz, now')
            /\ sOut.fails[LocalDay(tz, now')] > 0
            /\ sOut.posted[LocalDay(tz, now')] = 0)
             => /\ sOut'.pc = "posting"
                /\ sOut'.target = LocalDay(tz, now') - 1
                /\ sOut'.rolls[LocalDay(tz, now')] > 1
                /\ daily' = daily]_vars

\* After a failed post the loop ran again in the same 00:00 minute, and
\* this second post returned and set the marker; the first run's rollover
\* had credited a session that is still open.
C25_Witness ==
  \E d \in Days :
    /\ sOut.fails[d] = 1 /\ sOut.posted[d] = 1 /\ sOut.rolls[d] = 2
    /\ AutoMarker = <<d - 1>>
    /\ \E u \in DOMAIN open : DailySeconds(daily, d - 1, u) > 0

\* C26: once the scheduler has called rollover_open_sessions for the
\* midnight that begins the local date d, at every instant t from now on
\* get_totals_for_day of the day d - 1 gives the same mapping with and
\* without include_live: the stored totals of that day miss no time of
\* the users still present.
C26_PersistedComplete ==
  \A d \in Days :
    sOut.rolls[d] > 0 =>
      \A t \in now..MaxTime :
        GetTotalsForDay(daily, open, d - 1, tz, FALSE, t).totals
          = GetTotalsForDay(daily, open, d - 1, tz, TRUE, t).totals

\* The rollover for a midnight has credited the day before to a user who
\* is still present, and the clock is past that midnight.
C26_Witness ==
  \E d \in Days : \E u \in DOMAIN open :
    /\ sOut.rolls[d] > 0
    /\ DailySeconds(daily, d - 1, u) > 0
    /\ open[u] = MidnightUtc(tz, d)
    /\ now > open[u]

\* C27: while runtime_ready is false no step changes a row of
\* open_sessions, daily_totals or meta, except on_ready's reseed, which
\* sets runtime_ready and touches open_sessions only; an on_ready that
\* fires while runtime_ready is true changes nothing; and no process
\* reseeds more than once.
C27_NothingBeforeReady ==
  /\ [](sOut.reseeds <= 1)
  /\ [][/\ ~runtime_ready =>
             \/ (open' = open /\ daily' = daily /\ meta' = meta)
             \/ (hist'.op = "reseed" /\ runtime_ready'
                 /\ daily' = daily /\ meta' = meta)
        /\ (runtime_ready /\ calls' # calls /\ hist'.op \in {"ready", "reseed"}) =>
             (hist'.op = "ready" /\ open' = open /\ daily' = daily /\ meta' = meta)]_vars

\* A restarted process that has not passed its checks was handed the
\* leave of a member whose session the process before it had left open.
C27_Witness ==
  /\ ~runtime_ready
  /\ hist.op = "voice"
  /\ ~hist.ev.bot /\ hist.ev.home
  /\ hist.ev.before = "tracked" /\ hist.ev.after = "none"
  /\ hist.ev.user \in DOMAIN open

\* C28: a voice-state event adds an open_sessions row only for its member
\* and only when the member, a human of the configured guild, moves from
\* outside the tracked channel into it; it removes a row only for its
\* member and only when the member moves from the tracked channel to
\* outside it; such moves do open and close the session; and every other
\* event (a move between other channels, a change inside the tracked
\* channel, a bot, another guild) changes no row.
C28_VoiceEventCases ==
  [][(calls' # calls /\ hist'.op = "voice") =>
       LET ev == hist'.ev
           enters == ev.before # "tracked" /\ ev.after = "tracked"
           leaves == ev.before = "tracked" /\ ev.after # "tracked"
           counted == runtime_ready /\ ~ev.bot /\ ev.home
       IN  /\ (DOMAIN open' \ DOMAIN open # {}) =>
                 /\ counted /\ enters
                 /\ DOMAIN open' \ DOMAIN open = {ev.user}
                 /\ open'[ev.user] = now
                 /\ daily' = daily
           /\ (DOMAIN open \ DOMAIN open' # {}) =>
                 /\ counted /\ leaves
                 /\ DOMAIN open \ DOMAIN open' = {ev.user}
           /\ (counted /\ enters) => ev.user \in DOMAIN open'
           /\ (counted /\ leaves) => ev.user \notin DOMAIN open'
           /\ ~(counted /\ (enters \/ leaves)) => (open' = open /\ daily' = daily)
           /\ \A u \in (DOMAIN open) \cap (DOMAIN open') : open'[u] = open[u]
           /\ meta' = meta]_vars

\* A member moved from the tracked channel to another channel, and the
\* session was closed and credited.
C28_Witness ==
  /\ hist.op = "voice"
  /\ hist.ev.before = "tracked" /\ hist.ev.after = "other"
  /\ hist.ev.user \notin DOMAIN open
  /\ \E d \in Days : DailySeconds(daily, d, hist.ev.user) > 0
====
